---- MODULE Spec2Model ----
(***************************************************************************)
(* A model of RCX_Link (rcxlib/RCX_Link.cpp): the host-side link layer     *)
(* that opens a transport to a brick, synchronises with it and streams     *)
(* program images and firmware to it in sequenced packets.                 *)
(*                                                                         *)
(* One RCX_Link object is modelled in full.  Every public operation is one *)
(* action; the values returned by the transport and by the progress        *)
(* callback during the operation are inputs of the action.                 *)
(***************************************************************************)
EXTENDS Integers, Sequences, FiniteSets, TLC

VARIABLES
    fTransport,             \* <<>> (null) or <<t>>, t the owned transport object
    fTarget,                \* RCX_TargetType
    fSynced,                \* bool
    fResult,                \* RCX_Result of the last transport exchange
    fReply,                 \* payload bytes of the last reply (fReply+1 ...)
    fMaxZeros,              \* int
    fRCXProgramChunkSize,   \* int
    fRCXFirmwareChunkSize,  \* int
    gUSB,                   \* static bool gUSB
    gQuiet,                 \* extern bool gQuiet
    gProgramMode,           \* bool gProgramMode
    opened,                 \* the caller's view: the last Open returned kRCX_OK, no Close since
    shook,                  \* history: the handshakes since the last successful Open
    op,                     \* the operation that ran last
    ret,                    \* what it returned
    wire,                   \* the transport exchanges it made, in order
    calls,                  \* the DownloadProgress callbacks it made, in order
    other                   \* the fields of a second Link of the same process

vars == <<fTransport, fTarget, fSynced, fResult, fReply, fMaxZeros,
          fRCXProgramChunkSize, fRCXFirmwareChunkSize, gUSB, gQuiet, gProgramMode,
          opened, shook, op, ret, wire, calls, other>>

-----------------------------------------------------------------------------
(* Bounds of the model *)

\* The transport fault, or the callback abort, of an operation falls on one of
\* its first MaxFaultAt exchanges (callbacks).
MaxFaultAt == 5

-----------------------------------------------------------------------------
(* Program constants *)

kFragmentChunk == 20
kSpyboticsSmallChunk == 2
kSpyboticsChunk == 16
kFirmwareChunk == 200
kMaxZerosUSB == 23
kMaxZerosSerial == 30
kMaxOnes == 90
kNubStart == 32768

\* RCX_Result codes (RCX_Result.h)
kRCX_OK == 0
kRCX_OpenSerialError == -1
kRCX_IREchoError == -2
kRCX_ReplyError == -3
kRCX_RequestError == -4
kRCX_AbortError == -7
kRCX_MemFullError == -8
kRCX_PipeModeError == -9
kRCX_USBUnsupportedError == -10
kRCX_TcpUnsupportedError == -12

RCX_ERROR(result) == result < 0

\* RCX_Link::kMaxCmdLength, RCX_Link::kMaxReplyLength (RCX_Link.h)
kMaxCmdLength == 2500
kMaxReplyLength == 1000

\* RCX_TargetType
kRCX_RCXTarget == "RCX"
kRCX_CMTarget == "CyberMaster"
kRCX_ScoutTarget == "Scout"
kRCX_RCX2Target == "RCX2"
kRCX_SpyboticsTarget == "Spybotics"
kRCX_SwanTarget == "Swan"

Targets == {kRCX_RCXTarget, kRCX_CMTarget, kRCX_ScoutTarget, kRCX_RCX2Target,
            kRCX_SpyboticsTarget, kRCX_SwanTarget}

\* fMaxOnes is set by the constructor and never changed
fMaxOnes == kMaxOnes

-----------------------------------------------------------------------------
(* Commands (RCX_Cmd): the opcode by name, its argument bytes, and for a     *)
(* download packet the data bytes it carries.                                *)

Cmd(o, a) == [op |-> o, args |-> a, data |-> <<>>]

MakePing == Cmd("kRCX_PingOp", <<>>)
MakeUnlock == Cmd("kRCX_UnlockOp", <<>>)
MakeUnlockCM == Cmd("kRCX_UnlockCMOp", <<>>)
MakeGetVersions == Cmd("kRCX_GetVersions", <<>>)
MakeRead(value) == Cmd("kRCX_ReadOp", <<value>>)
MakeDeleteTasks == Cmd("kRCX_DeleteTasksOp", <<>>)
MakeDeleteSubs == Cmd("kRCX_DeleteSubsOp", <<>>)
MakePlaySound(sound) == Cmd("kRCX_PlaySoundOp", <<sound>>)
MakeSet(dst, src) == Cmd("kRCX_SetSourceValueOp", <<dst, src>>)
\* RCX_VALUE(type, data)
RCX_VALUE(type, data) == type * 65536 + data
kRCX_SpybotPingCtrlType == 51
MakeBegin(type, number, length) ==
    Cmd(IF type = "Task" THEN "kRCX_BeginTaskOp" ELSE "kRCX_BeginSubOp",
        <<number, length>>)
MakeDownload(seq, bytes) == [op |-> "kRCX_DownloadOp", args |-> <<seq>>, data |-> bytes]

\* RCX_Cmd::GetLength
GetLength(cmd) ==
    IF cmd.op = "kRCX_DownloadOp" THEN 4 + Len(cmd.data) ELSE 1 + Len(cmd.args)

\* the timeouts a Send is given
kDefaultTimeout == "default"
kDownloadWaitTime == "fDownloadWaitTime"
kMaxTimeout == "kMaxTimeout"

\* an opcode byte: bit 3 is a toggle, the other seven bits name the command
Opcode(class, toggle) == [class |-> class, toggle |-> toggle]

\* data[0] & 0xf7
Mask(opcode) == [opcode EXCEPT !.toggle = FALSE]

\* the switch of ExpectedReplyLength over an opcode byte
ReplyLengthSwitch(data, length, target) ==
    CASE data[1] \in {Opcode("kRCX_BeginTaskOp", FALSE), Opcode("kRCX_BeginSubOp", FALSE),
                      Opcode("kRCX_DownloadOp", FALSE),
                      Opcode("kRCX_BeginFirmwareOp", FALSE)} -> 2
      [] data[1] \in {Opcode("kRCX_BatteryLevelOp", FALSE),
                      Opcode("kRCX_ReadOp", FALSE)} -> 3
      [] data[1] = Opcode("kRCX_GetVersions", FALSE) -> 9
      [] data[1] = Opcode("kRCX_UploadEepromOp", FALSE) ->
            IF target = kRCX_CMTarget THEN 1 ELSE 17
      [] data[1] = Opcode("kRCX_UnlockOp", FALSE) -> 26
      [] data[1] = Opcode("kRCX_GetMemMap", FALSE) ->
            IF target = kRCX_CMTarget THEN 21 ELSE 189
      [] data[1] = Opcode("kRCX_PollMemoryOp", FALSE) ->
            IF length # 4 THEN 0 ELSE data[4] + 1
      [] data[1] = Opcode("kRCX_UploadDatalogOp", FALSE) ->
            IF length # 5 THEN 0 ELSE (data[4] + data[5] * 256) * 3 + 1
      [] OTHER -> 1

\* an ExpectedReplyLength that switches on the opcode byte as it is
ExpectedReplyLengthUnmasked(data, length, target) ==
    ReplyLengthSwitch(data, length, target)

\* RCX_Link::ExpectedReplyLength(const UByte *data, int length); data[k] of the
\* code is data[k + 1] here
ExpectedReplyLengthOf(data, length, target) ==
    ReplyLengthSwitch(<<Mask(data[1])>> \o Tail(data), length, target)

\* RCX_Cmd::GetBody: the opcode, then the argument bytes
GetBody(cmd) == <<Opcode(cmd.op, FALSE)>> \o cmd.args

\* ExpectedReplyLength(cmd->GetBody(), cmd->GetLength())
ExpectedReplyLength(cmd, target) ==
    ExpectedReplyLengthOf(GetBody(cmd), GetLength(cmd), target)

-----------------------------------------------------------------------------
(* The environment of one operation: what the transport and the progress     *)
(* callback answer while it runs.  All exchanges succeed with a reply of the *)
(* expected length and zero payload, except exchange number `at` (if any),   *)
(* which suffers `fault`; callback number `abortAt` (if any) returns false.  *)

Faults == {"kRCX_IREchoError", "short", "nak"}

Env(k, f, a, c) == [at |-> k, fault |-> f, abortAt |-> a, complement |-> c]

\* fTransport->GetComplementData() answers c throughout the operation
NoFault(c) == Env(0, "short", 0, c)

Envs == {NoFault(c) : c \in BOOLEAN}
            \cup {Env(k, f, 0, FALSE) : k \in 1..MaxFaultAt, f \in Faults}
            \cup {Env(0, "short", a, FALSE) : a \in 1..MaxFaultAt}

\* RCX_Transport::Send as seen by the Link: the result and the reply payload
TransportSend(expected, k, e) ==
    LET len == IF expected > 0 THEN expected - 1 ELSE 0
    IN  IF e.at # k THEN [result |-> len, reply |-> [i \in 1..len |-> 0], keep |-> FALSE]
        ELSE CASE e.fault = "kRCX_IREchoError" ->
                    [result |-> kRCX_IREchoError, reply |-> <<>>, keep |-> TRUE]
               [] e.fault = "short" ->
                    [result |-> 0, reply |-> <<>>, keep |-> FALSE]
               [] OTHER ->
                    [result |-> len, reply |-> [i \in 1..len |-> 1], keep |-> FALSE]

-----------------------------------------------------------------------------
(* The part of the state an operation changes as it runs, threaded through   *)
(* its steps; r is the value the last call returned.  fDownloadTotal and     *)
(* fDownloadSoFar live here only: every download writes both (BeginProgress) *)
(* before it reads them, so what an earlier operation left never matters.    *)

Enter == [fTarget |-> fTarget, fSynced |-> fSynced, fResult |-> fResult, fReply |-> fReply,
          fDownloadTotal |-> 0, fDownloadSoFar |-> 0,
          gProgramMode |-> gProgramMode,
          fastMode |-> IF fTransport = <<>> THEN FALSE ELSE fTransport[1].fastMode,
          wire |-> <<>>, calls |-> <<>>, go |-> TRUE, r |-> kRCX_OK]

Return(m, result) == [m EXCEPT !.r = result]

GetReplyByte(m, index) == m.fReply[index + 1]

\* RCX_Link::Send(const UByte *data, int length, bool retry, int timeout)
Send(m, cmd, retry, timeout, e) ==
    LET expected == ExpectedReplyLength(cmd, m.fTarget)
    IN  IF GetLength(cmd) > kMaxCmdLength \/ expected > kMaxReplyLength
        THEN Return(m, kRCX_RequestError)
        ELSE LET t == TransportSend(expected, Len(m.wire) + 1, e)
             IN  [m EXCEPT !.fResult = t.result,
                           !.fReply = IF t.keep THEN @ ELSE t.reply,
                           !.wire = Append(@, [cmd |-> cmd, retry |-> retry,
                                               timeout |-> timeout,
                                               fast |-> m.fastMode,
                                               mode |-> m.gProgramMode,
                                               reply |-> t.reply,
                                               result |-> t.result]),
                           !.r = t.result]

\* RCX_Link::GetReply(UByte *data, int maxLength): the value returned and the
\* bytes copied to data, on a Link whose fields are m
GetReply(m, maxLength) ==
    IF m.fResult < 0 THEN [r |-> m.fResult, data |-> <<>>]
    ELSE LET length == IF m.fResult > maxLength THEN maxLength ELSE m.fResult
         IN  [r |-> length, data |-> [i \in 1..length |-> m.fReply[i]]]

\* if (RCX_ERROR(result)) return result; and otherwise the rest of the function
OnOK(m, Rest(_)) == IF RCX_ERROR(m.r) THEN m ELSE Rest(m)

\* fSynced = true; return kRCX_OK
Synced(m) == Return([m EXCEPT !.fSynced = TRUE], kRCX_OK)

\* a Sync that leaves out the unlock of the CyberMaster
SyncWithoutUnlockCM(m, e) ==
    IF m.fSynced THEN Return(m, kRCX_OK)
    ELSE
    OnOK(Send(m, MakePing, TRUE, kDefaultTimeout, e), LAMBDA m1 :
    IF m1.fTarget = kRCX_ScoutTarget THEN
        OnOK(Send(m1, MakeUnlock, TRUE, kDefaultTimeout, e), LAMBDA m2 :
        OnOK(Send(m2, Cmd("0x47", <<128>>), TRUE, kDefaultTimeout, e), Synced))
    ELSE Synced(m1))

\* a Sync that pings whether or not the Link is synced
SyncAlways(m, e) ==
    OnOK(Send(m, MakePing, TRUE, kDefaultTimeout, e), LAMBDA m1 :
    IF m1.fTarget = kRCX_CMTarget THEN
        OnOK(Send(m1, MakeUnlockCM, TRUE, kDefaultTimeout, e), Synced)
    ELSE IF m1.fTarget = kRCX_ScoutTarget THEN
        OnOK(Send(m1, MakeUnlock, TRUE, kDefaultTimeout, e), LAMBDA m2 :
        OnOK(Send(m2, Cmd("0x47", <<128>>), TRUE, kDefaultTimeout, e), Synced))
    ELSE Synced(m1))

\* RCX_Link::Sync
Sync(m, e) ==
    IF m.fSynced THEN Return(m, kRCX_OK)
    ELSE
    OnOK(Send(m, MakePing, TRUE, kDefaultTimeout, e), LAMBDA m1 :
    IF m1.fTarget = kRCX_CMTarget THEN
        OnOK(Send(m1, MakeUnlockCM, TRUE, kDefaultTimeout, e), Synced)
    ELSE IF m1.fTarget = kRCX_ScoutTarget THEN
        OnOK(Send(m1, MakeUnlock, TRUE, kDefaultTimeout, e), LAMBDA m2 :
        OnOK(Send(m2, Cmd("0x47", <<128>>), TRUE, kDefaultTimeout, e), Synced))
    ELSE Synced(m1))

-----------------------------------------------------------------------------
(* Chunk-size adaptation *)

\* const int nOnesDensity[256]; entry b is at index b + 1
nOnesDensity ==
    <<0, 1, 1, 2, 1, 2, 2, 3, 1, 2, 2, 3, 2, 3, 3, 4,
      1, 2, 2, 3, 2, 3, 3, 4, 2, 3, 3, 4, 3, 4, 4, 5,
      1, 2, 2, 3, 2, 3, 3, 4, 2, 3, 3, 4, 3, 4, 4, 5,
      2, 3, 3, 4, 3, 4, 4, 5, 3, 4, 4, 5, 4, 5, 5, 6,
      1, 2, 2, 3, 2, 3, 3, 4, 2, 3, 3, 4, 3, 4, 4, 5,
      2, 3, 3, 4, 3, 4, 4, 5, 3, 4, 4, 5, 4, 5, 5, 6,
      2, 3, 3, 4, 3, 4, 4, 5, 3, 4, 4, 5, 4, 5, 5, 6,
      3, 4, 4, 5, 4, 5, 5, 6, 4, 5, 5, 6, 5, 6, 6, 7,
      1, 2, 2, 3, 2, 3, 3, 4, 2, 3, 3, 4, 3, 4, 4, 5,
      2, 3, 3, 4, 3, 4, 4, 5, 3, 4, 4, 5, 4, 5, 5, 6,
      2, 3, 3, 4, 3, 4, 4, 5, 3, 4, 4, 5, 4, 5, 5, 6,
      3, 4, 4, 5, 4, 5, 5, 6, 4, 5, 5, 6, 5, 6, 6, 7,
      2, 3, 3, 4, 3, 4, 4, 5, 3, 4, 4, 5, 4, 5, 5, 6,
      3, 4, 4, 5, 4, 5, 5, 6, 4, 5, 5, 6, 5, 6, 6, 7,
      3, 4, 4, 5, 4, 5, 5, 6, 4, 5, 5, 6, 5, 6, 6, 7,
      4, 5, 5, 6, 5, 6, 6, 7, 5, 6, 6, 7, 6, 7, 7, 8>>

\* #define max(x, y) ((x) > (y)) ? (x) : (y)
max(x, y) == IF x > y THEN x ELSE y

kOnesPlusMinusScore == 3

(* The loops of AdjustChunkSize run over up to fMaxOnes bytes inside a scan  *)
(* over the whole chunk.  Each is evaluated here in the order of the code,   *)
(* left half of the index range first and the right half only if the loop    *)
(* did not end in the left one, which keeps the depth of evaluation small.   *)

\* for (j = lo; j < hi; ++j) if (*q != 0) break;  the value of j when it ends
RECURSIVE ZeroRunIn(_, _, _, _)

ZeroRunRight(data, i, mid, hi, j) ==
    IF j < mid THEN j ELSE ZeroRunIn(data, i, mid, hi)

ZeroRunIn(data, i, lo, hi) ==
    IF lo >= hi THEN lo
    ELSE IF hi - lo = 1 THEN (IF data[i + lo + 1] # 0 THEN lo ELSE hi)
    ELSE ZeroRunRight(data, i, (lo + hi) \div 2, hi,
                      ZeroRunIn(data, i, lo, (lo + hi) \div 2))

\* the inner loop of the zero scan: the value of j when it ends
ZeroRun(data, i, j) == ZeroRunIn(data, i, j, fMaxZeros)

\* a zero scan that breaks at the first zero byte, however short its run
ZeroHitAtZero(data, i) == data[i + 1] = 0

\* the body of the zero scan at index i finds too many consecutive zeros
ZeroHit(data, i) == data[i + 1] = 0 /\ ZeroRun(data, i, 0) >= fMaxZeros

\* the first index in lo..hi-1 at which the zero scan breaks, or hi
RECURSIVE FirstZeroHit(_, _, _)

FirstZeroHitRight(data, mid, hi, i) ==
    IF i < mid THEN i ELSE FirstZeroHit(data, mid, hi)

FirstZeroHit(data, lo, hi) ==
    IF lo >= hi THEN hi
    ELSE IF hi - lo = 1 THEN (IF ZeroHit(data, lo) THEN lo ELSE hi)
    ELSE FirstZeroHitRight(data, (lo + hi) \div 2, hi,
                           FirstZeroHit(data, lo, (lo + hi) \div 2))

\* a zero scan that cuts the chunk where the run of zeros starts
ZeroCutAtRun(size, hi, i) == IF i < hi THEN i ELSE size

\* size = i + fMaxZeros at the break, or size as it was
ZeroCut(size, hi, i) == IF i < hi THEN i + fMaxZeros ELSE size

\* the zero scan from index i on: the size it leaves
ZeroScan(data, size, i) ==
    ZeroCut(size, size - fMaxZeros, FirstZeroHit(data, i, size - fMaxZeros))

\* one pass of the inner loop of the sparse scan at j with nLotsOfOnes = c:
\* whether it breaks, and the j and nLotsOfOnes it leaves
SparseStep(data, i, j, c) ==
    IF nOnesDensity[data[i + j + 1] + 1] >= 3
    THEN IF c + 1 > kOnesPlusMinusScore
         THEN [done |-> TRUE, j |-> j, c |-> c + 1]
         ELSE [done |-> FALSE, j |-> j + 1, c |-> c + 1]
    ELSE [done |-> FALSE, j |-> j + 1, c |-> max(0, c - 2)]

\* for (j = lo; j < hi; ++j) { ... } of the sparse scan
RECURSIVE SparseRunIn(_, _, _, _, _)

SparseRunRight(data, i, mid, hi, r) ==
    IF r.done THEN r ELSE SparseRunIn(data, i, mid, hi, r.c)

SparseRunIn(data, i, lo, hi, c) ==
    IF lo >= hi THEN [done |-> FALSE, j |-> lo, c |-> c]
    ELSE IF hi - lo = 1 THEN SparseStep(data, i, lo, c)
    ELSE SparseRunRight(data, i, (lo + hi) \div 2, hi,
                        SparseRunIn(data, i, lo, (lo + hi) \div 2, c))

\* the inner loop of the sparse scan: the value of j when it ends
SparseRun(data, i, j, nLotsOfOnes) == SparseRunIn(data, i, j, fMaxOnes, nLotsOfOnes).j

\* the body of the sparse scan at index i finds too many consecutive sparse bytes
SparseHit(data, i) ==
    nOnesDensity[data[i + 1] + 1] < 3 /\ SparseRun(data, i, 0, 0) >= fMaxOnes

\* the first index in lo..hi-1 at which the sparse scan breaks, or hi
RECURSIVE FirstSparseHit(_, _, _)

FirstSparseHitRight(data, mid, hi, i) ==
    IF i < mid THEN i ELSE FirstSparseHit(data, mid, hi)

FirstSparseHit(data, lo, hi) ==
    IF lo >= hi THEN hi
    ELSE IF hi - lo = 1 THEN (IF SparseHit(data, lo) THEN lo ELSE hi)
    ELSE FirstSparseHitRight(data, (lo + hi) \div 2, hi,
                             FirstSparseHit(data, lo, (lo + hi) \div 2))

\* size = max(i, fMaxOnes) at the break, or size as it was
SparseCut(size, hi, i) == IF i < hi THEN max(i, fMaxOnes) ELSE size

\* the sparse scan from index i on: the size it leaves
SparseScan(data, size, i) ==
    SparseCut(size, size - fMaxOnes, FirstSparseHit(data, i, size - fMaxOnes))

\* RCX_Link::AdjustChunkSize; data is the byte sequence from the pointer on
AdjustChunkSize(n, data, bComplement) ==
    IF ~bComplement
    THEN SparseScan(data, ZeroScan(data, n, 0), 0)
    ELSE n

-----------------------------------------------------------------------------
(* Progress *)

\* RCX_Link::BeginProgress
BeginProgress(m, total) == [m EXCEPT !.fDownloadTotal = total, !.fDownloadSoFar = 0]

\* RCX_Link::DownloadProgress is virtual: the host's override answers
DownloadProgress(m, soFar, total, chunkSize, e) ==
    [m EXCEPT !.calls = Append(@, [soFar |-> soFar, total |-> total,
                                   delta |-> chunkSize,
                                   go |-> (e.abortAt # Len(m.calls) + 1)]),
              !.go = (e.abortAt # Len(m.calls) + 1)]

\* an IncrementProgress that reports the last packet as the bytes so far
IncrementProgressLast(m, delta, e) ==
    LET m1 == [m EXCEPT !.fDownloadSoFar = delta]
    IN  IF m1.fDownloadTotal # 0
        THEN DownloadProgress(m1, m1.fDownloadSoFar, m1.fDownloadTotal, delta, e)
        ELSE [m1 EXCEPT !.go = TRUE]

\* RCX_Link::IncrementProgress
IncrementProgress(m, delta, e) ==
    LET m1 == [m EXCEPT !.fDownloadSoFar = @ + delta]
    IN  IF m1.fDownloadTotal # 0
        THEN DownloadProgress(m1, m1.fDownloadSoFar, m1.fDownloadTotal, delta, e)
        ELSE [m1 EXCEPT !.go = TRUE]

-----------------------------------------------------------------------------
(* The chunk loop *)

\* UShort seq
UShortMod == 65536

\* the while loop of RCX_Link::Download(const UByte *data, int length, int chunk)
RECURSIVE DownloadLoop(_, _, _, _, _, _)

\* a tail that is marked only when the download is not quiet
LastSeqUnlessQuiet(m, seq) == IF ~gQuiet THEN 0 ELSE seq

\* if (!gQuiet || gProgramMode) seq = 0, where remain <= chunk
LastSeq(m, seq) == IF ~gQuiet \/ m.gProgramMode THEN 0 ELSE seq

\* an iteration that moves on by the chunk size, not by the size it sent
DownloadStepByChunk(m, data, remain, seq, n, chunk, e) ==
    OnOK(Send(m, MakeDownload(seq, SubSeq(data, 1, n)), TRUE, kDownloadWaitTime, e),
         LAMBDA m1 :
            IF ~IncrementProgress(m1, n, e).go
            THEN Return(IncrementProgress(m1, n, e), kRCX_AbortError)
            ELSE DownloadLoop(IncrementProgress(m1, n, e),
                              SubSeq(data, chunk + 1, Len(data)),
                              remain - chunk, (seq + 1) % UShortMod, chunk, e))

\* one iteration, with the sequence number and the size it settled on
DownloadStep(m, data, remain, seq, n, chunk, e) ==
    OnOK(Send(m, MakeDownload(seq, SubSeq(data, 1, n)), TRUE, kDownloadWaitTime, e),
         LAMBDA m1 :
            IF ~IncrementProgress(m1, n, e).go
            THEN Return(IncrementProgress(m1, n, e), kRCX_AbortError)
            ELSE DownloadLoop(IncrementProgress(m1, n, e),
                              SubSeq(data, n + 1, Len(data)),
                              remain - n, (seq + 1) % UShortMod, chunk, e))

DownloadLoop(m, data, remain, seq, chunk, e) ==
    IF remain > 0
    THEN IF remain <= chunk
         THEN DownloadStep(m, data, remain, LastSeq(m, seq),
                           AdjustChunkSize(remain, data, e.complement), chunk, e)
         ELSE DownloadStep(m, data, remain, seq,
                           AdjustChunkSize(chunk, data, e.complement), chunk, e)
    ELSE Return(m, kRCX_OK)

\* RCX_Link::Download(const UByte *data, int length, int chunk)
Download(m, data, length, chunk, e) == DownloadLoop(m, data, length, 1, chunk, e)

-----------------------------------------------------------------------------
(* Downloads *)

RECURSIVE Sum(_, _)
Sum(data, length) == IF length = 0 THEN 0 ELSE data[length] + Sum(data, length - 1)

\* static int Checksum(const UByte *data, int length)
Checksum(data, length) == Sum(data, length)

\* cmd.Set(kRCX_BeginFirmwareOp, (UByte)start, (UByte)(start>>8),
\*         (UByte)check, (UByte)(check>>8), 0)
BeginFirmwareCmd(start, check) ==
    Cmd("kRCX_BeginFirmwareOp",
        <<start % 256, (start \div 256) % 256, check % 256, (check \div 256) % 256, 0>>)

\* RCX_Image::GetSize
RECURSIVE GetSize(_)
GetSize(image) ==
    IF image = <<>> THEN 0 ELSE Len(image[1].data) + GetSize(Tail(image))

\* RCX_SpyboticsLinker::Generate
RECURSIVE Generate(_)
Generate(image) ==
    IF image = <<>> THEN <<>> ELSE image[1].data \o Generate(Tail(image))

\* a DownloadChunk that looks at the length of the reply only
DownloadChunkAnyReply(m, type, number, data, length, total, e) ==
    OnOK(Sync(m, e), LAMBDA m1 :
    OnOK(Send(m1, MakeBegin(type, number, length), TRUE, kDefaultTimeout, e),
         LAMBDA m2 :
    IF m2.r # 1 THEN Return(m2, kRCX_MemFullError)
    ELSE IF (IF total = 0 THEN length ELSE total) > 0
    THEN Download(BeginProgress(m2, IF total = 0 THEN length ELSE total),
                  data, length, fRCXProgramChunkSize, e)
    ELSE Download(m2, data, length, fRCXProgramChunkSize, e)))

\* RCX_Link::DownloadChunk
DownloadChunk(m, type, number, data, length, total, e) ==
    OnOK(Sync(m, e), LAMBDA m1 :
    OnOK(Send(m1, MakeBegin(type, number, length), TRUE, kDefaultTimeout, e),
         LAMBDA m2 :
    IF m2.r # 1 \/ GetReplyByte(m2, 0) # 0 THEN Return(m2, kRCX_MemFullError)
    ELSE IF (IF total = 0 THEN length ELSE total) > 0
    THEN Download(BeginProgress(m2, IF total = 0 THEN length ELSE total),
                  data, length, fRCXProgramChunkSize, e)
    ELSE Download(m2, data, length, fRCXProgramChunkSize, e)))

\* the for loop of RCX_Link::DownloadByChunk, from chunk i (0-based) on
RECURSIVE DownloadChunks(_, _, _, _)
DownloadChunks(m, image, i, e) ==
    IF i < Len(image)
    THEN OnOK(DownloadChunk(m, image[i + 1].type, image[i + 1].number,
                            image[i + 1].data, Len(image[i + 1].data),
                            IF i = 0 THEN GetSize(image) ELSE -1, e),
              LAMBDA m1 : DownloadChunks(m1, image, i + 1, e))
    ELSE Return(m, kRCX_OK)

\* a download that clears the subs before the tasks
DeleteSubsFirst(m, image, e) ==
    OnOK(Send(m, MakeDeleteSubs, TRUE, kDefaultTimeout, e), LAMBDA m2 :
    OnOK(Send(m2, MakeDeleteTasks, TRUE, kDefaultTimeout, e), LAMBDA m3 :
    DownloadChunks(m3, image, 0, e)))

\* the rest of RCX_Link::DownloadByChunk after the program is selected
DeleteAndDownload(m, image, e) ==
    OnOK(Send(m, MakeDeleteTasks, TRUE, kDefaultTimeout, e), LAMBDA m2 :
    OnOK(Send(m2, MakeDeleteSubs, TRUE, kDefaultTimeout, e), LAMBDA m3 :
    DownloadChunks(m3, image, 0, e)))

\* the body of RCX_Link::DownloadByChunk, inside the scope of ProgramMode x
DownloadByChunkBody(m, image, programNumber, e) ==
    IF programNumber # 0
    THEN OnOK(Send(m, Cmd("kRCX_SelectProgramOp", <<programNumber - 1>>),
                   TRUE, kDefaultTimeout, e),
              LAMBDA m1 : DeleteAndDownload(m1, image, e))
    ELSE DeleteAndDownload(m, image, e)

\* a flag that is cleared at the end of a download that succeeded only
LeaveProgramModeAtEnd(m) ==
    IF RCX_ERROR(m.r) THEN m ELSE [m EXCEPT !.gProgramMode = FALSE]

\* ~ProgramMode() { gProgramMode = false; }
LeaveProgramMode(m) == [m EXCEPT !.gProgramMode = FALSE]

\* RCX_Link::DownloadByChunk: ProgramMode() on entry, ~ProgramMode() on every return
DownloadByChunk(m, image, programNumber, e) ==
    LeaveProgramMode(DownloadByChunkBody([m EXCEPT !.gProgramMode = TRUE],
                                         image, programNumber, e))

\* RCX_Link::DownloadSpybotics, given the linker's output
DownloadBlob(m, output, e) ==
    OnOK(Send(m, BeginFirmwareCmd(256, Checksum(output, Len(output))), TRUE,
              kDefaultTimeout, e), LAMBDA m1 :
    OnOK(Download(BeginProgress(m1, Len(output)), output, Len(output),
                  IF gUSB THEN kSpyboticsSmallChunk ELSE kSpyboticsChunk, e),
         LAMBDA m2 : Return(m2, kRCX_OK)))

\* RCX_Link::DownloadSpybotics
DownloadSpybotics(m, image, e) == DownloadBlob(m, Generate(image), e)

\* a program download that does not look at the result of StopAll
DownloadImageAfterStop(m, image, programNumber, e) ==
    OnOK(Sync(m, e), LAMBDA m1 :
    OnOK(Return(Send(m1, Cmd("kRCX_StopAllOp", <<>>), TRUE, kDefaultTimeout, e), kRCX_OK),
         LAMBDA m2 :
    OnOK(IF m2.fTarget = kRCX_SpyboticsTarget
         THEN DownloadSpybotics(m2, image, e)
         ELSE DownloadByChunk(m2, image, programNumber, e), LAMBDA m3 :
    IF ~gQuiet
    THEN Return(Send(m3, MakePlaySound(5), TRUE, kDefaultTimeout, e), kRCX_OK)
    ELSE Return(m3, kRCX_OK))))

\* RCX_Link::Download(const RCX_Image &image, int programNumber)
DownloadImage(m, image, programNumber, e) ==
    OnOK(Sync(m, e), LAMBDA m1 :
    OnOK(Send(m1, Cmd("kRCX_StopAllOp", <<>>), TRUE, kDefaultTimeout, e), LAMBDA m2 :
    OnOK(IF m2.fTarget = kRCX_SpyboticsTarget
         THEN DownloadSpybotics(m2, image, e)
         ELSE DownloadByChunk(m2, image, programNumber, e), LAMBDA m3 :
    IF ~gQuiet
    THEN Return(Send(m3, MakePlaySound(5), TRUE, kDefaultTimeout, e), kRCX_OK)
    ELSE Return(m3, kRCX_OK))))

\* the end of RCX_Link::TransferFirmware, after the Unlock was sent
AfterUnlock(m) == IF m.fastMode THEN Return(m, kRCX_OK) ELSE m

\* a transfer whose Unlock is sent like every other command
TransferFirmwareRetry(m, data, length, start, progress, e) ==
    OnOK(Sync(m, e), LAMBDA m1 :
    OnOK(Send(m1, Cmd("kRCX_DeleteFirmware", <<1, 3, 5, 7, 11>>), TRUE,
              kDefaultTimeout, e), LAMBDA m2 :
    OnOK(Send(m2, BeginFirmwareCmd(start,
                     Checksum(data, IF length < 19456 THEN length ELSE 19456)),
              TRUE, kDefaultTimeout, e), LAMBDA m3 :
    OnOK(Download(BeginProgress(m3, IF progress THEN length ELSE 0),
                  data, length, fRCXFirmwareChunkSize, e), LAMBDA m4 :
    AfterUnlock(Send(m4, MakeUnlock, TRUE, kDefaultTimeout, e))))))

\* RCX_Link::TransferFirmware
TransferFirmware(m, data, length, start, progress, e) ==
    OnOK(Sync(m, e), LAMBDA m1 :
    OnOK(Send(m1, Cmd("kRCX_DeleteFirmware", <<1, 3, 5, 7, 11>>), TRUE,
              kDefaultTimeout, e), LAMBDA m2 :
    OnOK(Send(m2, BeginFirmwareCmd(start,
                     Checksum(data, IF length < 19456 THEN length ELSE 19456)),
              TRUE, kDefaultTimeout, e), LAMBDA m3 :
    OnOK(Download(BeginProgress(m3, IF progress THEN length ELSE 0),
                  data, length, fRCXFirmwareChunkSize, e), LAMBDA m4 :
    AfterUnlock(Send(m4, MakeUnlock, FALSE, kMaxTimeout, e))))))

\* the nub images rcxnub.h, rcxnub_odd.h
rcxnub == <<121, 6, 13, 107>>
rcxnub_odd == <<121, 6, 13, 106>>

\* fTransport->SetFastMode
SetFastMode(m, fast) == [m EXCEPT !.fastMode = fast]

\* a DownloadFirmware that leaves fast mode on
DownloadFirmwareStaysFast(m, data, length, start, fast, fastSupported, oddParity, e) ==
    IF fast
    THEN IF ~fastSupported THEN Return(m, kRCX_PipeModeError)
         ELSE OnOK(TransferFirmware(m, IF oddParity THEN rcxnub_odd ELSE rcxnub,
                                    IF oddParity THEN Len(rcxnub_odd) ELSE Len(rcxnub),
                                    kNubStart, FALSE, e), LAMBDA m1 :
              TransferFirmware(SetFastMode(m1, TRUE), data, length, start, TRUE, e))
    ELSE TransferFirmware(m, data, length, start, TRUE, e)

\* RCX_Link::DownloadFirmware
DownloadFirmware(m, data, length, start, fast, fastSupported, oddParity, e) ==
    IF fast
    THEN IF ~fastSupported THEN Return(m, kRCX_PipeModeError)
         ELSE OnOK(TransferFirmware(m, IF oddParity THEN rcxnub_odd ELSE rcxnub,
                                    IF oddParity THEN Len(rcxnub_odd) ELSE Len(rcxnub),
                                    kNubStart, FALSE, e), LAMBDA m1 :
              SetFastMode(TransferFirmware(SetFastMode(m1, TRUE),
                                           data, length, start, TRUE, e), FALSE))
    ELSE TransferFirmware(m, data, length, start, TRUE, e)

-----------------------------------------------------------------------------
(* Queries *)

\* RCX_Link::GetVersion; rom and ram are out-parameters the model leaves out
GetVersion(m, e) ==
    OnOK(Sync(m, e), LAMBDA m1 :
    OnOK(Send(m1, MakeGetVersions, TRUE, kDefaultTimeout, e), LAMBDA m2 :
    IF m2.r # 8 THEN Return(m2, kRCX_ReplyError)
    ELSE Return(m2, kRCX_OK)))

\* result = (int)GetReplyByte(0) + ((int)GetReplyByte(1) << 8)
ReplyWord(m) == GetReplyByte(m, 0) + GetReplyByte(m, 1) * 256

\* RCX_Link::GetValue
GetValue(m, value, e) ==
    OnOK(Sync(m, e), LAMBDA m1 :
    OnOK(Send(m1, MakeRead(value), TRUE, kDefaultTimeout, e), LAMBDA m2 :
    IF m2.r # 2 THEN Return(m2, kRCX_ReplyError)
    ELSE Return(m2, ReplyWord(m2))))

\* the Scout branch of RCX_Link::GetBatteryLevel, after its Send
ScoutBattery(m) ==
    IF m.r # 1 THEN Return(m, kRCX_ReplyError)
    ELSE Return(m, GetReplyByte(m, 0) * 109)

\* the other branch of RCX_Link::GetBatteryLevel, after its Send
Battery(m) ==
    IF m.r # 2 THEN Return(m, kRCX_ReplyError)
    ELSE Return(m, ReplyWord(m))

\* RCX_Link::GetBatteryLevel
GetBatteryLevel(m, e) ==
    OnOK(Sync(m, e), LAMBDA m1 :
    IF m1.fTarget = kRCX_ScoutTarget
    THEN ScoutBattery(Send(m1, Cmd("kRCX_PollMemoryOp", <<58, 1, 1>>), TRUE,
                           kDefaultTimeout, e))
    ELSE Battery(Send(m1, Cmd("kRCX_BatteryLevelOp", <<>>), TRUE,
                      kDefaultTimeout, e)))

-----------------------------------------------------------------------------
(* Device names *)

UpperToLower == [U |-> "u", S |-> "s", B |-> "b", T |-> "t", C |-> "c", P |-> "p"]

tolower(c) == IF c \in DOMAIN UpperToLower THEN UpperToLower[c] ELSE c

\* const char *CheckPrefix(const char *s, const char *prefix): <<>> for a null
\* result, <<rest>> for a pointer to the rest of s
RECURSIVE CheckPrefix(_, _)
CheckPrefix(s, prefix) ==
    IF prefix # <<>>
    THEN IF s = <<>> \/ tolower(Head(prefix)) # tolower(Head(s)) THEN <<>>
         ELSE CheckPrefix(Tail(s), Tail(prefix))
    ELSE IF s = <<>> THEN <<s>>
         ELSE IF Head(s) = ":" THEN <<Tail(s)>>
         ELSE <<>>

\* the device names Open is given, after the lookup of the default
PortNames == { <<"U", "S", "B", ":", "0">>,
               <<"t", "c", "p">>,
               <<"s", "e", "r", "i", "a", "l", ":", "d">>,
               <<"u", "s", "b", "x">> }

-----------------------------------------------------------------------------
(* Inputs of the operations *)

Fill(n, b) == [i \in 1..n |-> b]

Chunk(t, k, d) == [type |-> t, number |-> k, data |-> d]

\* program images (RCX_Image): a sequence of chunks
Images == { <<>>,
            <<Chunk("Task", 0, <<1, 2, 3, 4, 5, 6, 7, 8>>)>>,
            <<Chunk("Task", 0, <<7>>), Chunk("Sub", 1, <<1, 2, 3, 4>>)>>,
            <<Chunk("Task", 0, <<9>> \o Fill(32, 0))>> }

\* firmware images
Firmwares == { <<1, 2, 3, 4, 5, 6, 7, 8>>,
               <<255>> \o Fill(32, 0) \o <<255, 255>> }

\* the chunk sizes the host may configure in place of the defaults
kSmallChunk == 3
kLargeChunk == 25

ProgramNumbers == {0, 2}

\* commands a caller hands to Send: a datalog upload of 2 entries, and one of
\* 334 entries, whose reply would not fit the reply buffer
SendCmds == { MakePing,
              Cmd("kRCX_UploadDatalogOp", <<0, 0, 2, 0>>),
              Cmd("kRCX_UploadDatalogOp", <<0, 0, 78, 1>>) }

\* buffers for AdjustChunkSize: runs of zeros, of dense bytes (0xff) and of
\* sparse bytes (0x01) of the lengths the thresholds make interesting
Buffers == { Fill(100, 0),
             Fill(22, 0) \o Fill(78, 255),
             Fill(100, 255),
             Fill(5, 255) \o Fill(95, 1),
             Fill(95, 255) \o Fill(95, 1),
             Fill(40, 255) \o Fill(31, 0) \o Fill(29, 255),
             <<1, 0, 0, 7, 0, 255, 0, 0, 0, 255>> \o Fill(89, 1) \o Fill(4, 255) }

\* the sizes asked of AdjustChunkSize
ChunkSizes == {1, 2, 3, 10, 23, 24, 30, 31, 53, 54, 90, 91, 96, 100, 103, 185, 186, 190}

\* the values of fMaxZeros AdjustChunkSize runs with
MaxZerosValues == {1, 2, kMaxZerosUSB, kMaxZerosSerial}

\* what Open meets: no pipe, a transport that does not open, a failing first
\* command, or no failure
OpenOutcomes == {"nopipe", "openerror", "senderror", "ok"}

\* DownloadFirmware's fast, FastModeSupported(), FastModeOddParity()
FastModes == { <<FALSE, FALSE, FALSE>>, <<TRUE, FALSE, FALSE>>,
               <<TRUE, TRUE, FALSE>>, <<TRUE, TRUE, TRUE>> }

-----------------------------------------------------------------------------
(* The state machine *)

\* the fields as an operation finds them
Pre == [fSynced |-> fSynced, held |-> fTransport # <<>>]

NoPre == [fSynced |-> FALSE, held |-> FALSE]

NoOp == [name |-> "", image |-> <<>>, programNumber |-> 0, fast |-> <<>>,
         pre |-> NoPre]

\* the command that completes the handshake of Sync for a target
LastSyncCmd(target) ==
    IF target = kRCX_CMTarget THEN MakeUnlockCM
    ELSE IF target = kRCX_ScoutTarget THEN Cmd("0x47", <<128>>)
    ELSE MakePing

\* the history after the exchanges w: once, a handshake was completed; since, one
\* was completed and no exchange failed after it
RECURSIVE Shake(_, _, _)
Shake(h, w, target) ==
    IF w = <<>> THEN h
    ELSE Shake(IF Head(w).result < 0 THEN [h EXCEPT !.since = FALSE]
               ELSE IF Head(w).cmd = LastSyncCmd(target)
                    THEN [once |-> TRUE, since |-> TRUE]
                    ELSE h,
               Tail(w), target)

\* no operation's record is held: the caller may start the next one
Idle == op = NoOp

\* the second Link after construction; the fields its constructor leaves
\* unset are written by its Open before anything reads them
NoOther == [fTransport |-> <<>>, fTarget |-> kRCX_RCXTarget, fSynced |-> FALSE,
            fMaxZeros |-> kMaxZerosSerial, fResult |-> kRCX_OK]

Init ==
    /\ fTransport = <<>>
    /\ fRCXProgramChunkSize = kFragmentChunk
    /\ fRCXFirmwareChunkSize = kFirmwareChunk
    \* the constructor leaves these fields unset: any value
    /\ fSynced \in BOOLEAN
    /\ fTarget \in Targets
    /\ fMaxZeros \in {kMaxZerosUSB, kMaxZerosSerial}
    \* unset too, and never read before Open writes them
    /\ fResult = kRCX_OK
    /\ fReply = <<>>
    /\ gUSB = FALSE
    /\ gProgramMode = FALSE
    /\ gQuiet \in BOOLEAN
    /\ opened = FALSE
    /\ shook = [once |-> FALSE, since |-> FALSE]
    /\ op = NoOp
    /\ ret = kRCX_OK
    /\ wire = <<>>
    /\ calls = <<>>
    /\ other = NoOther

\* what an operation did: its name and input, its result, its exchanges and callbacks
RecordOf(name, image, programNumber, fast, result, w, c) ==
    /\ op' = [name |-> name, image |-> image, programNumber |-> programNumber,
              fast |-> fast, pre |-> Pre]
    /\ ret' = result
    /\ wire' = w
    /\ calls' = c
    \* an operation on this Link writes no field of the other
    /\ other' = other

Record(name, image, result, w, c) == RecordOf(name, image, 0, <<>>, result, w, c)

\* an operation on the opened Link ends: its effects on the Link
CommitOf(name, image, programNumber, fast, m) ==
    /\ fSynced' = m.fSynced
    /\ fResult' = m.fResult
    /\ fReply' = m.fReply
    /\ gProgramMode' = m.gProgramMode
    /\ fTransport' = <<[fastMode |-> m.fastMode]>>
    /\ shook' = Shake(shook, m.wire, fTarget)
    /\ RecordOf(name, image, programNumber, fast, m.r, m.wire, m.calls)
    /\ UNCHANGED <<fTarget, fMaxZeros, fRCXProgramChunkSize, fRCXFirmwareChunkSize,
                   gUSB, gQuiet, opened>>

Commit(name, image, m) == CommitOf(name, image, 0, <<>>, m)

\* the caller has taken the result: the record of the operation is dropped
Returned ==
    /\ ~Idle
    /\ op' = NoOp
    /\ ret' = kRCX_OK
    /\ wire' = <<>>
    /\ calls' = <<>>
    /\ UNCHANGED <<fTransport, fTarget, fSynced, fResult, fReply, fMaxZeros,
                   fRCXProgramChunkSize, fRCXFirmwareChunkSize, gUSB, gQuiet,
                   gProgramMode, opened, shook, other>>

\* an Open that turns off pinging on every target
OpenCommandAlways(m, e) ==
    Send(m, MakeSet(RCX_VALUE(kRCX_SpybotPingCtrlType, 1), RCX_VALUE(2, 0)),
         TRUE, kDefaultTimeout, e)

\* RCX_Link::Open, after the transport is open: turn off pinging
OpenCommand(m, e) ==
    IF m.fTarget = kRCX_SpyboticsTarget
    THEN Send(m, MakeSet(RCX_VALUE(kRCX_SpybotPingCtrlType, 1), RCX_VALUE(2, 0)),
              TRUE, kDefaultTimeout, e)
    ELSE m

\* RCX_Link::Open(target, portName, options) on a Link that holds no transport
OpenWith(target, portName, outcome) ==
    LET usb == CheckPrefix(portName, <<"u", "s", "b">>) # <<>>
        tcp == ~usb /\ CheckPrefix(portName, <<"t", "c", "p">>) # <<>>
        e == Env(IF outcome = "senderror" THEN 1 ELSE 0, "kRCX_IREchoError", 0, FALSE)
        m1 == OpenCommand([Enter EXCEPT !.fTarget = target, !.fastMode = FALSE], e)
    IN
    /\ fTarget' = target
    /\ gUSB' = usb
    /\ UNCHANGED <<fRCXProgramChunkSize, fRCXFirmwareChunkSize, gQuiet, gProgramMode>>
    /\ IF (usb \/ tcp) /\ outcome = "nopipe"
       THEN \* if (!pipe) return kRCX_USBUnsupportedError / kRCX_TcpUnsupportedError
            /\ Record("Open", <<>>,
                      IF usb THEN kRCX_USBUnsupportedError ELSE kRCX_TcpUnsupportedError,
                      <<>>, <<>>)
            /\ opened' = FALSE
            /\ UNCHANGED <<fTransport, fSynced, fResult, fReply, fMaxZeros, shook>>
       ELSE IF outcome = "openerror"
       THEN \* Fail_Open: delete fTransport; fTransport = 0
            /\ fTransport' = <<>>
            /\ Record("Open", <<>>, kRCX_OpenSerialError, <<>>, <<>>)
            /\ opened' = FALSE
            /\ UNCHANGED <<fSynced, fResult, fReply, fMaxZeros, shook>>
       ELSE IF target = kRCX_SpyboticsTarget /\ RCX_ERROR(m1.r)
       THEN \* if (RCX_ERROR(result)) return result
            /\ fTransport' = <<[fastMode |-> FALSE]>>
            /\ Record("Open", <<>>, m1.r, m1.wire, <<>>)
            /\ opened' = FALSE
            /\ fResult' = m1.fResult
            /\ fReply' = m1.fReply
            /\ shook' = Shake(shook, m1.wire, target)
            /\ UNCHANGED <<fSynced, fMaxZeros>>
       ELSE /\ fTransport' = <<[fastMode |-> FALSE]>>
            /\ fMaxZeros' = IF usb THEN kMaxZerosUSB ELSE kMaxZerosSerial
            /\ fSynced' = FALSE
            /\ fResult' = kRCX_OK
            /\ fReply' = m1.fReply
            /\ Record("Open", <<>>, kRCX_OK, m1.wire, <<>>)
            /\ opened' = TRUE
            /\ shook' = [once |-> FALSE, since |-> FALSE]

Open ==
    /\ Idle
    /\ fTransport = <<>>
    /\ \E target \in Targets, portName \in PortNames, outcome \in OpenOutcomes :
        OpenWith(target, portName, outcome)

\* RCX_Link::Close
Close ==
    /\ Idle
    /\ fTransport' = <<>>
    /\ opened' = FALSE
    /\ Record("Close", <<>>, kRCX_OK, <<>>, <<>>)
    /\ UNCHANGED <<fTarget, fSynced, fResult, fReply, fMaxZeros, fRCXProgramChunkSize,
                   fRCXFirmwareChunkSize, gUSB, gQuiet, gProgramMode, shook>>

\* the targets and the outcomes of an Open of the second Link: it is opened
\* on a brick that Open sends nothing to
OtherTargets == {kRCX_ScoutTarget}
OtherOutcomes == {"nopipe", "openerror", "ok"}

\* RCX_Link::Open(target, portName, options) on the second Link
OpenOtherWith(target, portName, outcome) ==
    LET usb == CheckPrefix(portName, <<"u", "s", "b">>) # <<>>
        tcp == ~usb /\ CheckPrefix(portName, <<"t", "c", "p">>) # <<>>
    IN
    \* gUSB is one variable of the file, written by the Open of every Link
    /\ gUSB' = usb
    /\ other' =
          IF (usb \/ tcp) /\ outcome = "nopipe"
          THEN [other EXCEPT !.fTarget = target]
          ELSE IF outcome = "openerror"
          THEN [other EXCEPT !.fTarget = target, !.fTransport = <<>>]
          ELSE [other EXCEPT !.fTarget = target,
                             !.fTransport = <<[fastMode |-> FALSE]>>,
                             !.fMaxZeros = IF usb THEN kMaxZerosUSB ELSE kMaxZerosSerial,
                             !.fSynced = FALSE,
                             !.fResult = kRCX_OK]

OpenOther ==
    /\ Idle
    /\ other.fTransport = <<>>
    /\ \E target \in OtherTargets, portName \in PortNames, outcome \in OtherOutcomes :
        OpenOtherWith(target, portName, outcome)
    /\ UNCHANGED <<fTransport, fTarget, fSynced, fResult, fReply, fMaxZeros,
                   fRCXProgramChunkSize, fRCXFirmwareChunkSize, gQuiet,
                   gProgramMode, opened, shook, op, ret, wire, calls>>

\* RCX_Link::Close on the second Link
CloseOther ==
    /\ Idle
    /\ other' = [other EXCEPT !.fTransport = <<>>]
    /\ UNCHANGED <<fTransport, fTarget, fSynced, fResult, fReply, fMaxZeros,
                   fRCXProgramChunkSize, fRCXFirmwareChunkSize, gUSB, gQuiet,
                   gProgramMode, opened, shook, op, ret, wire, calls>>

\* RCX_Link::SetRCXProgramChunkSize, RCX_Link::SetRCXFirmwareChunkSize
SetChunkSizes ==
    /\ Idle
    /\ fRCXProgramChunkSize = kFragmentChunk
    /\ fRCXProgramChunkSize' = kSmallChunk
    /\ fRCXFirmwareChunkSize' = kLargeChunk
    /\ Record("SetChunkSizes", <<>>, kRCX_OK, <<>>, <<>>)
    /\ UNCHANGED <<fTransport, fTarget, fSynced, fResult, fReply, fMaxZeros,
                   gUSB, gQuiet, gProgramMode, opened, shook>>

DoSync ==
    /\ Idle /\ opened
    /\ \E e \in Envs : Commit("Sync", <<>>, Sync(Enter, e))

\* RCX_Link::Send(const RCX_Cmd *cmd, bool retry, int timeout)
DoSend ==
    /\ Idle /\ opened
    /\ \E cmd \in SendCmds, e \in Envs :
        Commit("Send", <<>>, Send(Enter, cmd, TRUE, kDefaultTimeout, e))

DoGetVersion ==
    /\ Idle /\ opened
    /\ \E e \in Envs : Commit("GetVersion", <<>>, GetVersion(Enter, e))

DoGetValue ==
    /\ Idle /\ opened
    /\ \E e \in Envs : Commit("GetValue", <<>>, GetValue(Enter, RCX_VALUE(0, 1), e))

DoGetBatteryLevel ==
    /\ Idle /\ opened
    /\ \E e \in Envs : Commit("GetBatteryLevel", <<>>, GetBatteryLevel(Enter, e))

DoDownload ==
    /\ Idle /\ opened
    /\ \E image \in Images, programNumber \in ProgramNumbers, e \in Envs :
        CommitOf("Download", image, programNumber, <<>>,
                 DownloadImage(Enter, image, programNumber, e))

DoDownloadFirmware ==
    /\ Idle /\ opened
    /\ \E data \in Firmwares, f \in FastModes, e \in Envs :
        CommitOf("DownloadFirmware",
               IF f[1] /\ f[2]
               THEN <<Chunk("Nub", 0, IF f[3] THEN rcxnub_odd ELSE rcxnub),
                      Chunk("Firmware", 1, data)>>
               ELSE <<Chunk("Firmware", 0, data)>>,
               0, f,
               DownloadFirmware(Enter, data, Len(data), kNubStart, f[1], f[2], f[3], e))

\* RCX_Link::AdjustChunkSize(n, data, bComplement) on the first n bytes of a
\* buffer; the record keeps the buffer, n (as the number) and bComplement
DoAdjustChunkSize ==
    /\ Idle
    /\ \E data \in Buffers, n \in ChunkSizes, bComplement \in BOOLEAN :
        /\ n <= Len(data)
        /\ RecordOf("AdjustChunkSize", <<Chunk("Data", n, data)>>, 0, <<bComplement>>,
                    AdjustChunkSize(n, SubSeq(data, 1, n), bComplement), <<>>, <<>>)
    /\ UNCHANGED <<fTransport, fTarget, fSynced, fResult, fReply, fMaxZeros,
                   fRCXProgramChunkSize, fRCXFirmwareChunkSize, gUSB, gQuiet,
                   gProgramMode, opened, shook>>

\* the commands ExpectedReplyLength is asked about: every opcode its switch
\* names, and some it leaves to the default
ReplyClasses ==
    {"kRCX_BeginTaskOp", "kRCX_BeginSubOp", "kRCX_DownloadOp", "kRCX_BeginFirmwareOp",
     "kRCX_BatteryLevelOp", "kRCX_ReadOp", "kRCX_GetVersions", "kRCX_UploadEepromOp",
     "kRCX_UnlockOp", "kRCX_GetMemMap", "kRCX_PollMemoryOp", "kRCX_UploadDatalogOp",
     "kRCX_PingOp", "kRCX_PlaySoundOp", "kRCX_DeleteTasksOp"}

ReplyBytes == {0, 5, 16, 255}

\* the bytes after the opcode: up to five, bytes 3 and 4 of the command varied
ReplyArgs ==
    {SubSeq(<<0, 0, b3, b4, 0>>, 1, n) : n \in 0..5, b3 \in ReplyBytes, b4 \in ReplyBytes}

\* ExpectedReplyLength(data, length) on a Link of any target
DoExpectedReplyLength ==
    /\ Idle
    /\ \E class \in ReplyClasses, toggle \in BOOLEAN, args \in ReplyArgs :
        RecordOf("ExpectedReplyLength", <<Chunk(class, 1 + Len(args), args)>>, 0, <<toggle>>,
                 ExpectedReplyLengthOf(<<Opcode(class, toggle)>> \o args, 1 + Len(args),
                                       fTarget),
                 <<>>, <<>>)
    /\ UNCHANGED <<fTransport, fTarget, fSynced, fResult, fReply, fMaxZeros,
                   fRCXProgramChunkSize, fRCXFirmwareChunkSize, gUSB, gQuiet,
                   gProgramMode, opened, shook>>

Next ==
    \/ DoExpectedReplyLength
    \/ OpenOther
    \/ CloseOther
    \/ Open
    \/ Close
    \/ SetChunkSizes
    \/ DoSync
    \/ DoSend
    \/ DoGetVersion
    \/ DoGetValue
    \/ DoGetBatteryLevel
    \/ DoDownload
    \/ DoDownloadFirmware
    \/ DoAdjustChunkSize
    \/ Returned

Spec == Init /\ [][Next]_vars

\* the life cycle, the handshake and the queries, without the downloads
NextLink ==
    \/ Open
    \/ Close
    \/ DoSync
    \/ DoSend
    \/ DoGetVersion
    \/ DoGetValue
    \/ DoGetBatteryLevel
    \/ Returned

SpecLink == Init /\ [][NextLink]_vars

\* the downloads on a Link that is opened once
NextDownload ==
    \/ Open
    \/ SetChunkSizes
    \/ DoSync
    \/ DoDownload
    \/ DoDownloadFirmware
    \/ Returned

SpecDownload == Init /\ [][NextDownload]_vars

\* two Links of one process: program downloads on the first, while the second
\* is opened and closed
NextLinks ==
    \/ Open
    \/ OpenOther
    \/ CloseOther
    \/ DoDownload
    \/ Returned

SpecLinks == Init /\ [][NextLinks]_vars

\* AdjustChunkSize alone, on a Link whose fMaxZeros is any of MaxZerosValues
InitAdjust ==
    /\ fTransport = <<>>
    /\ fRCXProgramChunkSize = kFragmentChunk
    /\ fRCXFirmwareChunkSize = kFirmwareChunk
    /\ fSynced = FALSE
    /\ fTarget = kRCX_RCXTarget
    /\ fMaxZeros \in MaxZerosValues
    /\ fResult = kRCX_OK
    /\ fReply = <<>>
    /\ gUSB = FALSE
    /\ gProgramMode = FALSE
    /\ gQuiet = FALSE
    /\ opened = FALSE
    /\ shook = [once |-> FALSE, since |-> FALSE]
    /\ op = NoOp
    /\ ret = kRCX_OK
    /\ wire = <<>>
    /\ calls = <<>>
    /\ other = NoOther

NextAdjust ==
    \/ DoAdjustChunkSize
    \/ Returned

SpecAdjust == InitAdjust /\ [][NextAdjust]_vars

\* ExpectedReplyLength alone, on a constructed Link of any target
NextReply ==
    \/ DoExpectedReplyLength
    \/ Returned

SpecReply == Init /\ [][NextReply]_vars

-----------------------------------------------------------------------------
(* Reading the record of the last operation *)

IsPacket(x) == x.cmd.op = "kRCX_DownloadOp"

IsBegin(x) == x.cmd.op \in {"kRCX_BeginTaskOp", "kRCX_BeginSubOp", "kRCX_BeginFirmwareOp"}

IsDownload == op.name \in {"Download", "DownloadFirmware"}

\* the exchange before the run of packets that packet k belongs to (0: none)
RunStart(k) ==
    CHOOSE j \in 0..(k - 1) : /\ j = 0 \/ ~IsPacket(wire[j])
                              /\ \A x \in (j + 1)..k : IsPacket(wire[x])

\* the last packet of the run that follows exchange k (k itself: no packet)
RunEnd(k) ==
    CHOOSE j \in k..Len(wire) : /\ \A x \in (k + 1)..j : IsPacket(wire[x])
                                /\ j = Len(wire) \/ ~IsPacket(wire[j + 1])

\* the position of packet k in its chunk loop, from 1
PacketIndex(k) == k - RunStart(k)

\* the bytes of the packets i..j, in send order
RECURSIVE Payloads(_, _)
Payloads(i, j) == IF i > j THEN <<>> ELSE wire[i].cmd.data \o Payloads(i + 1, j)

\* how many chunk loops were begun up to exchange k
BeginsBefore(k) == Cardinality({j \in 1..k : IsBegin(wire[j])})

\* the payload of the chunk loop begun at exchange k
LoopPayload(k) ==
    IF op.name = "Download" /\ fTarget = kRCX_SpyboticsTarget
    THEN Generate(op.image)
    ELSE op.image[BeginsBefore(k)].data

\* the chunk size of the chunk loops of the operation
LoopChunk ==
    IF op.name = "DownloadFirmware" THEN fRCXFirmwareChunkSize
    ELSE IF fTarget = kRCX_SpyboticsTarget
         THEN (IF gUSB THEN kSpyboticsSmallChunk ELSE kSpyboticsChunk)
         ELSE fRCXProgramChunkSize

\* packet k carries the last bytes of the payload of its chunk loop
IsLast(k) ==
    Len(Payloads(RunStart(k) + 1, k)) = Len(LoopPayload(RunStart(k)))

\* the sizes and the sequence numbers of the packets of the operation
Sizes == [k \in 1..Len(SelectSeq(wire, IsPacket)) |->
            Len(SelectSeq(wire, IsPacket)[k].cmd.data)]

Seqs == [k \in 1..Len(SelectSeq(wire, IsPacket)) |->
            SelectSeq(wire, IsPacket)[k].cmd.args[1]]

\* every exchange of the operation succeeded and no callback aborted it
AllWent ==
    /\ \A k \in 1..Len(wire) : ~RCX_ERROR(wire[k].result)
    /\ ret \notin {kRCX_AbortError, kRCX_MemFullError}

\* the chunk loop begun at exchange k ran to its end
LoopDone(k) == RunEnd(k) < Len(wire) \/ ret = kRCX_OK

\* what Sync sends to a target
SyncCmds(target) ==
    <<MakePing>> \o (IF target = kRCX_CMTarget THEN <<MakeUnlockCM>>
                     ELSE IF target = kRCX_ScoutTarget
                          THEN <<MakeUnlock, Cmd("0x47", <<128>>)>>
                          ELSE <<>>)

IsChunkBegin(x) == x.cmd.op \in {"kRCX_BeginTaskOp", "kRCX_BeginSubOp"}

\* the brick accepted the Begin of exchange x: reply length 1, payload byte 0
Accepted(x) == x.result = 1 /\ x.reply[1] = 0

NotPacket(x) == ~IsPacket(x)

\* the commands of the exchanges w
Cmds(w) == [k \in 1..Len(w) |-> w[k].cmd]

\* the handshake the operation had to run
Handshake == IF op.pre.fSynced THEN <<>> ELSE SyncCmds(fTarget)

\* the commands other than packets of a program download that runs to its end
ProgramCmds ==
    Handshake
    \o <<Cmd("kRCX_StopAllOp", <<>>)>>
    \o (IF op.programNumber > 0
        THEN <<Cmd("kRCX_SelectProgramOp", <<op.programNumber - 1>>)>>
        ELSE <<>>)
    \o <<MakeDeleteTasks, MakeDeleteSubs>>
    \o [i \in 1..Len(op.image) |->
            MakeBegin(op.image[i].type, op.image[i].number, Len(op.image[i].data))]
    \o (IF ~gQuiet THEN <<MakePlaySound(5)>> ELSE <<>>)

\* the commands other than packets of the transfer of one firmware image
TransferCmds(data) ==
    << Cmd("kRCX_DeleteFirmware", <<1, 3, 5, 7, 11>>),
       BeginFirmwareCmd(kNubStart, Checksum(data, Len(data))),
       MakeUnlock >>

\* the commands other than packets of the transfers i.. of the operation
RECURSIVE TransfersCmds(_)
TransfersCmds(i) ==
    IF i > Len(op.image) THEN <<>>
    ELSE TransferCmds(op.image[i].data) \o TransfersCmds(i + 1)

\* exchange k is the Unlock that ends a transfer
IsFinalUnlock(k) == wire[k].cmd = MakeUnlock /\ k > 1
                    /\ (IsPacket(wire[k - 1]) \/ IsBegin(wire[k - 1]))

\* the Unlock that ends the first transfer of the operation, or the last
\* exchange if the first transfer did not get to it
NubEnd ==
    IF \E k \in 1..Len(wire) : IsFinalUnlock(k)
    THEN CHOOSE k \in 1..Len(wire) :
            IsFinalUnlock(k) /\ \A j \in 1..(k - 1) : ~IsFinalUnlock(j)
    ELSE Len(wire)

\* a packet that went out under a nonzero progress total and was answered:
\* every packet but those of the nub, which is transferred in slow mode
\* before a payload that goes out in fast mode
Reported(x) ==
    /\ IsPacket(x) /\ ~RCX_ERROR(x.result)
    /\ (op.name = "DownloadFirmware" /\ Len(op.image) = 2) => x.fast

\* the bytes of the first k such packets
RECURSIVE SentBytes(_)
SentBytes(k) ==
    IF k = 0 THEN 0
    ELSE Len(SelectSeq(wire, Reported)[k].cmd.data) + SentBytes(k - 1)

-----------------------------------------------------------------------------
(* Claims *)

\* C1: in a chunk loop every packet but the last of the loop carries its
\* position 1, 2, 3, ... as sequence number, so no packet that is followed by
\* another packet carries 0, also when the tail is shortened.
C1_NonFinalSeq ==
    IsDownload =>
        \A k \in 1..(Len(wire) - 1) :
            IsPacket(wire[k]) /\ IsPacket(wire[k + 1])
                => wire[k].cmd.args[1] = PacketIndex(k)

\* C2: the packet that carries the last bytes of a payload has sequence number
\* 0 if and only if the download is in program mode or not quiet, and otherwise
\* its position in the loop; 8 bytes in chunks of 3 that are not shortened go
\* out as sizes (3,3,2) with sequence numbers (1,2,0) when not quiet.
C2_LastSeq ==
    IsDownload =>
        /\ \A k \in 1..Len(wire) :
             IsPacket(wire[k]) /\ IsLast(k) =>
                /\ wire[k].cmd.args[1] = 0 <=> (wire[k].mode \/ ~gQuiet)
                /\ ~(wire[k].mode \/ ~gQuiet) => wire[k].cmd.args[1] = PacketIndex(k)
        /\ ( /\ op.name = "Download" /\ ret = kRCX_OK /\ ~gQuiet
             /\ Len(op.image) = 1 /\ Len(op.image[1].data) = 8
             /\ LoopChunk = 3 )
           => Sizes = <<3, 3, 2>> /\ Seqs = <<1, 2, 0>>

\* C2 witness: a quiet download in program mode sent 8 bytes as (3,3,2) and
\* marked the last packet with 0
C2_Witness ==
    /\ op.name = "Download" /\ ret = kRCX_OK /\ gQuiet
    /\ Sizes = <<3, 3, 2>> /\ Seqs = <<1, 2, 0>>
    /\ \E k \in 1..Len(wire) : IsPacket(wire[k]) /\ IsLast(k) /\ wire[k].mode

\* C3: when every exchange succeeds and no callback aborts, the packets of
\* each chunk loop carry the payload as consecutive slices in order, nothing
\* skipped or sent twice, each of 1 to chunk bytes.
C3_Slices ==
    IsDownload =>
        \A k \in 1..Len(wire) :
            IsBegin(wire[k]) /\ (AllWent \/ LoopDone(k)) =>
                /\ Payloads(k + 1, RunEnd(k)) = LoopPayload(k)
                /\ \A x \in (k + 1)..RunEnd(k) :
                      Len(wire[x].cmd.data) \in 1..LoopChunk

\* C3 witness: a chunk loop in which every exchange succeeded sent a shortened
\* packet and went on
C3_Witness ==
    /\ IsDownload /\ AllWent
    /\ \E k \in 1..(Len(wire) - 1) :
          /\ IsPacket(wire[k]) /\ IsPacket(wire[k + 1])
          /\ Len(wire[k].cmd.data) < LoopChunk

\* C4: Sync on a Link that is not synced sends Ping, then the commands of the
\* target in order; it stops at the first send that fails, returns that error
\* and leaves synced false; it sets synced and returns OK only after all of
\* them succeeded.
C4_Handshake ==
    op.name = "Sync" /\ ~op.pre.fSynced =>
        /\ Len(wire) \in 1..Len(SyncCmds(fTarget))
        /\ \A k \in 1..Len(wire) : wire[k].cmd = SyncCmds(fTarget)[k]
        /\ \A k \in 1..(Len(wire) - 1) : ~RCX_ERROR(wire[k].result)
        /\ IF RCX_ERROR(wire[Len(wire)].result)
           THEN ret = wire[Len(wire)].result /\ ~fSynced
           ELSE Len(wire) = Len(SyncCmds(fTarget)) /\ ret = kRCX_OK /\ fSynced

\* C4 witness: the handshake of a Scout failed at its last command
C4_Witness ==
    /\ op.name = "Sync" /\ ~op.pre.fSynced /\ fTarget = kRCX_ScoutTarget
    /\ Len(wire) = 3 /\ RCX_ERROR(ret) /\ ~fSynced

\* C5: Sync on a Link that is synced returns OK, sends nothing and leaves
\* synced, the last result and the reply buffer as they were.
C5_Idempotent ==
    [][ op'.name = "Sync" /\ fSynced =>
            /\ ret' = kRCX_OK
            /\ wire' = <<>>
            /\ fSynced' /\ fResult' = fResult /\ fReply' = fReply ]_vars

\* C5 witness: Sync ran on a synced Link whose last exchange had failed
C5_Witness ==
    op.name = "Sync" /\ op.pre.fSynced /\ RCX_ERROR(fResult)

\* C6: after Close, synced is false.
C6_CloseClearsSynced == op.name = "Close" => ~fSynced

\* C7: synced implies that the Link holds an open transport and that a
\* handshake succeeded after the most recent failed send.
C7_SyncedMeansShook == fSynced => fTransport # <<>> /\ shook.since

\* C8: Open sends no command, whatever the target.
C8_OpenSendsNothing == op.name = "Open" => wire = <<>>

\* C8 amended: Open sends no command, except that for Spybotics, once the
\* transport is open, it sends the one command that turns off pinging.
C8_OpenSendsPingOff ==
    op.name = "Open" =>
        IF fTarget = kRCX_SpyboticsTarget /\ fTransport # <<>>
        THEN /\ Len(wire) = 1
             /\ wire[1].cmd = MakeSet(RCX_VALUE(kRCX_SpybotPingCtrlType, 1),
                                      RCX_VALUE(2, 0))
        ELSE wire = <<>>

\* C8 witness: a Spybotics Link is open and its Open sent one command
C8_Witness ==
    /\ op.name = "Open" /\ ret = kRCX_OK /\ opened
    /\ fTarget = kRCX_SpyboticsTarget /\ Len(wire) = 1

\* C9: a Link holds no transport after an Open that returned an error, nor
\* after Close.
C9_Released ==
    /\ op.name = "Open" /\ RCX_ERROR(ret) => fTransport = <<>>
    /\ op.name = "Close" => fTransport = <<>>

\* C10: GetVersion, GetValue and GetBatteryLevel return the error of the
\* send that failed, and ReplyError only after a send that succeeded.
C10_ErrorUnchanged ==
    op.name \in {"GetVersion", "GetValue", "GetBatteryLevel"} /\ wire # <<>> =>
        /\ RCX_ERROR(wire[Len(wire)].result) => ret = wire[Len(wire)].result
        /\ ret = kRCX_ReplyError => ~RCX_ERROR(wire[Len(wire)].result)

\* C11: after a Send that returned r the last result is r, also when Send
\* rejected the command with RequestError, so that GetReply then reports r.
C11_LastResult ==
    op.name = "Send" =>
        /\ fResult = ret
        /\ RCX_ERROR(ret) =>
              GetReply([fResult |-> fResult, fReply |-> fReply], kMaxReplyLength).r = ret

C13_MemFull ==
    op.name = "Download" /\ fTarget # kRCX_SpyboticsTarget =>
        \A k \in 1..Len(wire) :
            /\ IsChunkBegin(wire[k]) /\ ~RCX_ERROR(wire[k].result)
                    /\ ~Accepted(wire[k])
                  => k = Len(wire) /\ ret = kRCX_MemFullError
            /\ IsPacket(wire[k])
                  => /\ RunStart(k) > 0
                     /\ IsChunkBegin(wire[RunStart(k)])
                     /\ Accepted(wire[RunStart(k)])

\* C13 witness: the brick refused the first of two chunks with a reply of
\* length 1 and a nonzero byte
C13_Witness ==
    /\ op.name = "Download" /\ fTarget # kRCX_SpyboticsTarget
    /\ ret = kRCX_MemFullError /\ Len(op.image) = 2
    /\ IsChunkBegin(wire[Len(wire)]) /\ BeginsBefore(Len(wire)) = 1
    /\ wire[Len(wire)].result = 1 /\ wire[Len(wire)].reply[1] # 0

\* C14: a firmware transfer in which every send succeeds sends the handshake
\* if the Link was not synced, DeleteFirmware(1,3,5,7,11), BeginFirmware(start,
\* checksum, 0), the packets of the chunk loop with the firmware chunk size,
\* and last one Unlock with retry false and the maximum timeout, after all
\* bytes of the payload; every other command is sent with retry true.
C14_FirmwareOrder ==
    op.name = "DownloadFirmware" /\ AllWent /\ wire # <<>> =>
        /\ Cmds(SelectSeq(wire, NotPacket)) = Handshake \o TransfersCmds(1)
        /\ \A k \in 1..Len(wire) :
              /\ IsBegin(wire[k]) =>
                    /\ Payloads(k + 1, RunEnd(k)) = op.image[BeginsBefore(k)].data
                    /\ \A x \in (k + 1)..RunEnd(k) :
                          Len(wire[x].cmd.data) \in 1..fRCXFirmwareChunkSize
                    /\ RunEnd(k) < Len(wire) /\ IsFinalUnlock(RunEnd(k) + 1)
              /\ IF IsFinalUnlock(k)
                 THEN ~wire[k].retry /\ wire[k].timeout = kMaxTimeout
                 ELSE wire[k].retry

\* C14 witness: a fast download to an unsynced Scout transferred the nub and
\* then a payload that took more than one packet
C14_Witness ==
    /\ op.name = "DownloadFirmware" /\ AllWent /\ Len(op.image) = 2
    /\ fTarget = kRCX_ScoutTarget /\ ~op.pre.fSynced
    /\ Len(SelectSeq(wire, IsPacket)) >= 3

\* C15: DownloadFirmware with fast set, on a transport whose fast mode is off:
\* without fast mode support it returns PipeModeError and sends nothing;
\* with it, the nub goes out with fast mode off up to and including its
\* Unlock, everything after that goes out with fast mode on, and fast mode is
\* off when DownloadFirmware returns, however it returns.
C15_FastMode ==
    op.name = "DownloadFirmware" /\ op.fast[1] =>
        IF ~op.fast[2]
        THEN ret = kRCX_PipeModeError /\ wire = <<>>
        ELSE /\ ~fTransport[1].fastMode
             /\ \A k \in 1..Len(wire) : wire[k].fast <=> k > NubEnd
             /\ Len(wire) > NubEnd =>
                   /\ ~RCX_ERROR(wire[NubEnd].result)
                   /\ Payloads(RunStart(NubEnd - 1) + 1, NubEnd - 1) = op.image[1].data

\* C15 witness: the transfer of the payload failed or was aborted in fast mode
C15_Witness ==
    /\ op.name = "DownloadFirmware" /\ op.fast[1] /\ op.fast[2]
    /\ RCX_ERROR(ret) /\ Len(wire) > NubEnd /\ wire[Len(wire)].fast
    /\ ~fTransport[1].fastMode

\* C16: in a download with a nonzero progress total the callback is called
\* once after each packet that was sent successfully, with the bytes sent
\* since BeginProgress and the length of that packet; when it answers false
\* the download returns AbortError and nothing is sent after that packet.
C16_Progress ==
    IsDownload =>
        /\ Len(calls) = Len(SelectSeq(wire, Reported))
        /\ \A k \in 1..Len(calls) :
              /\ calls[k].delta = Len(SelectSeq(wire, Reported)[k].cmd.data)
              /\ calls[k].soFar = SentBytes(k)
              /\ calls[k].total # 0
              /\ k < Len(calls) => calls[k].go
        /\ (calls # <<>> /\ ~calls[Len(calls)].go) =>
              /\ ret = kRCX_AbortError
              /\ IsPacket(wire[Len(wire)]) /\ ~RCX_ERROR(wire[Len(wire)].result)
        /\ ret = kRCX_AbortError => calls # <<>> /\ ~calls[Len(calls)].go

\* C16 witness: the callback stopped a download after its second packet
C16_Witness ==
    /\ IsDownload /\ ret = kRCX_AbortError
    /\ Len(calls) = 2 /\ calls[2].soFar > calls[2].delta

\* C17: AdjustChunkSize(n, data, complement) returns a size from 1 to n,
\* returns n when complement is set, and reads no byte past data[n - 1]: it
\* is computed from the first n bytes and whatever follows does not change it.
C17_AdjustRange ==
    op.name = "AdjustChunkSize" =>
        LET n == op.image[1].number
            data == op.image[1].data
        IN  /\ ret \in 1..n
            /\ op.fast[1] => ret = n
            /\ ret = AdjustChunkSize(n, SubSeq(data, 1, n) \o Fill(fMaxOnes, 0), op.fast[1])
            /\ ret = AdjustChunkSize(n, SubSeq(data, 1, n) \o Fill(fMaxOnes, 255), op.fast[1])

\* C17 witness: the sparse scan cut a chunk that the zero scan had left whole
C17_Witness ==
    /\ op.name = "AdjustChunkSize" /\ ~op.fast[1]
    /\ ZeroScan(op.image[1].data, op.image[1].number, 0) = op.image[1].number
    /\ ret < op.image[1].number /\ ret > fMaxOnes

\* the command ExpectedReplyLength was asked about: the name of its opcode,
\* then the bytes after the opcode
ReplyCommand(o) == <<o.image[1].type>> \o o.image[1].data

\* the reply length the table gives for command bytes c (c[1] the opcode with
\* its toggle bit cleared, c[k + 1] byte k), a command length and a target
ReplyTable(c, length, target) ==
    CASE c[1] \in {"kRCX_BeginTaskOp", "kRCX_BeginSubOp", "kRCX_DownloadOp",
                   "kRCX_BeginFirmwareOp"} -> 2
      [] c[1] \in {"kRCX_BatteryLevelOp", "kRCX_ReadOp"} -> 3
      [] c[1] = "kRCX_GetVersions" -> 9
      [] c[1] = "kRCX_UnlockOp" -> 26
      [] c[1] = "kRCX_UploadEepromOp" /\ target = kRCX_CMTarget -> 1
      [] c[1] = "kRCX_UploadEepromOp" /\ target # kRCX_CMTarget -> 17
      [] c[1] = "kRCX_GetMemMap" /\ target = kRCX_CMTarget -> 21
      [] c[1] = "kRCX_GetMemMap" /\ target # kRCX_CMTarget -> 189
      [] c[1] = "kRCX_PollMemoryOp" /\ length = 4 -> c[4] + 1
      [] c[1] = "kRCX_PollMemoryOp" /\ length # 4 -> 0
      [] c[1] = "kRCX_UploadDatalogOp" /\ length = 5 -> (c[4] + c[5] * 256) * 3 + 1
      [] c[1] = "kRCX_UploadDatalogOp" /\ length # 5 -> 0
      [] OTHER -> 1

\* C18: ExpectedReplyLength is a function of the opcode byte masked with 0xF7,
\* command bytes 3 and 4, the command length and the target: whatever the
\* toggle bit of the opcode, it returns 2 for BeginTask, BeginSub, Download and
\* BeginFirmware, 3 for BatteryLevel and Read, 9 for GetVersions, 26 for
\* Unlock, 1 (CyberMaster) or 17 for UploadEeprom, 21 (CyberMaster) or 189 for
\* GetMemMap, command[3] + 1 for a PollMemory of length 4 and 0 for any other
\* length, (command[3] | command[4] << 8) * 3 + 1 for an UploadDatalog of
\* length 5 and 0 for any other length, and 1 for every other opcode; and the
\* call changes no field of the Link.
C18_ReplyLength ==
    [][op'.name = "ExpectedReplyLength" =>
          /\ ret' = ReplyTable(ReplyCommand(op'), op'.image[1].number, fTarget)
          /\ UNCHANGED <<fTransport, fTarget, fSynced, fResult, fReply, fMaxZeros,
                         fRCXProgramChunkSize, fRCXFirmwareChunkSize, gUSB, gQuiet,
                         gProgramMode>>]_vars

\* C18 witness: an UploadDatalog of length 5 asking for 16 entries, its
\* opcode carrying the toggle bit, expects 49 bytes
C18_Witness ==
    /\ op.name = "ExpectedReplyLength" /\ op.fast[1]
    /\ ReplyCommand(op) = <<"kRCX_UploadDatalogOp", 0, 0, 16, 0>>
    /\ ret = 49

\* exchange k is one whose failure the operation acts on: a command of the
\* handshake or of the preamble, a Begin or a packet, and not the PlaySound
\* that ends a program download or the Unlock that ends a transfer
Guarded(k) == wire[k].cmd.op # "kRCX_PlaySoundOp" /\ ~IsFinalUnlock(k)

\* C19: in a download of a program, to Spybotics or another target, and in a
\* firmware download, the first handshake command, preamble command, Begin or
\* packet whose send fails with a negative code ends the sequence: nothing is
\* sent after it and the operation returns that code.
C19_FirstError ==
    IsDownload =>
        \A k \in 1..Len(wire) :
            Guarded(k) /\ RCX_ERROR(wire[k].result)
                => k = Len(wire) /\ ret = wire[k].result

\* C19 witness: the second packet of a chunk loop failed and the download
\* returned its error
C19_Witness ==
    /\ IsDownload /\ wire # <<>>
    /\ IsPacket(wire[Len(wire)]) /\ PacketIndex(Len(wire)) = 2
    /\ RCX_ERROR(wire[Len(wire)].result) /\ ret = wire[Len(wire)].result

\* C20: the program-mode flag is set during every chunk loop (the Begin and
\* the packets of each chunk) of a program download to a target other than
\* Spybotics, is clear again when the download has returned, whether it
\* succeeded or ended with a send error before or inside a chunk, with
\* MemFullError or with AbortError, and is clear during every exchange of a
\* firmware download and of a Spybotics download.
C20_ProgramMode ==
    /\ ~gProgramMode
    /\ IsDownload =>
          \A k \in 1..Len(wire) :
              IF op.name = "Download" /\ fTarget # kRCX_SpyboticsTarget
              THEN IsChunkBegin(wire[k]) \/ IsPacket(wire[k]) => wire[k].mode
              ELSE ~wire[k].mode

\* C20 witness: the callback aborted a program download inside a chunk loop
\* that ran in program mode, and the flag is clear
C20_Witness ==
    /\ op.name = "Download" /\ fTarget # kRCX_SpyboticsTarget
    /\ ret = kRCX_AbortError /\ ~gProgramMode
    /\ IsPacket(wire[Len(wire)]) /\ wire[Len(wire)].mode

\* the indexes below n - maxZeros at which maxZeros consecutive zero bytes of
\* the buffer of the recorded AdjustChunkSize start
ZeroStarts ==
    {i \in 0..(op.image[1].number - fMaxZeros - 1) :
        \A j \in 0..(fMaxZeros - 1) : op.image[1].data[i + j + 1] = 0}

\* the smallest member of a nonempty set of indexes
Smallest(S) == CHOOSE i \in S : \A k \in S : i <= k

\* C21: with complement false, if i is the smallest index below n - maxZeros
\* at which maxZeros consecutive zero bytes start, AdjustChunkSize returns at
\* most i + maxZeros, and exactly i + maxZeros when that is at most maxOnes
\* (100 zero bytes with maxZeros 23 give 23); if there is no such index the
\* zero scan leaves the chunk whole and the result is what the sparse scan
\* makes of all n bytes (22 zeros followed by 78 bytes 0xFF with maxZeros 23
\* give 100).
C21_ZeroScan ==
    op.name = "AdjustChunkSize" /\ ~op.fast[1] =>
        LET n == op.image[1].number
            data == op.image[1].data
        IN  /\ IF ZeroStarts # {}
               THEN /\ ret <= Smallest(ZeroStarts) + fMaxZeros
                    /\ Smallest(ZeroStarts) + fMaxZeros <= fMaxOnes
                          => ret = Smallest(ZeroStarts) + fMaxZeros
               ELSE ret = SparseScan(data, n, 0)
            /\ (n = 100 /\ fMaxZeros = 23 /\ data = Fill(100, 0)) => ret = 23
            /\ (n = 100 /\ fMaxZeros = 23 /\ data = Fill(22, 0) \o Fill(78, 255))
                  => ret = 100

\* C21 witness: a run of zeros that starts at byte 40 of 100 cut the chunk to
\* 40 + maxZeros bytes
C21_Witness ==
    /\ op.name = "AdjustChunkSize" /\ ~op.fast[1]
    /\ op.image[1].number = 100 /\ fMaxZeros = kMaxZerosSerial
    /\ ZeroStarts # {} /\ Smallest(ZeroStarts) = 40
    /\ ret = 40 + kMaxZerosSerial

\* the Spybotics chunk size of the device this Link was opened on: its Open
\* set fMaxZeros from that device
OwnSpyboticsChunk ==
    IF fMaxZeros = kMaxZerosUSB THEN kSpyboticsSmallChunk ELSE kSpyboticsChunk

\* C22: Links share no mutable state but programMode and quiet, so that what
\* is done with another Link never changes the packets this Link sends: the
\* packets of a Spybotics download carry 2 bytes when this Link was opened on
\* USB and 16 bytes when it was opened on a serial device (the last packet of
\* the payload what is left), whatever Open another Link has run since.
C22_OwnDevice ==
    op.name = "Download" /\ fTarget = kRCX_SpyboticsTarget =>
        \A k \in 1..Len(wire) :
            IsPacket(wire[k]) =>
                /\ Len(wire[k].cmd.data) <= OwnSpyboticsChunk
                /\ ~IsLast(k) => Len(wire[k].cmd.data) = OwnSpyboticsChunk

====
